---- MODULE Spec2Model ----
(***************************************************************************)
(* Chat App API (src/main.py): users, rooms and messages kept in a         *)
(* document store, one handler per route.  The store is the state; each    *)
(* handler is a short sequence of store calls.  Handlers that make several *)
(* store calls (join_room, send_message) are also modelled call by call,   *)
(* so that two requests in flight can interleave between their calls.      *)
(***************************************************************************)
EXTENDS Integers, Sequences, FiniteSets, TLC

VARIABLES
    db,      \* the document store: collections user, room, message
    reqs,    \* requests in flight: slot -> request (or Idle)
    resp,    \* the last response of a handler that ran to completion
    posted   \* history: bodies answered by the POST routes (see Remember)

vars == <<db, reqs, resp, posted>>

----------------------------------------------------------------------------
(* Bounds of the model *)

MaxUsers == 2     \* user documents inserted in a run
MaxRooms == 1     \* room documents inserted in a run
MaxMsgs == 2      \* message documents inserted in a run
MaxStored == 3    \* message documents already in the store (SpecStored)
MaxStamp == 2     \* creation times of stored messages are 1..MaxStamp

(* Program constants *)

MinContentLen == 1
MaxContentLen == 5000
DefaultLimit == 50

Slots == {"p", "q"}   \* two requests can be in flight at once

----------------------------------------------------------------------------
(* Identifiers.  An ObjectId is a store-generated value; the n-th document *)
(* inserted into a collection gets [c |-> collection, n |-> n].  An id     *)
(* STRING is what travels in paths and bodies: the 24 hex digits of an     *)
(* ObjectId written in lower or upper case, or anything else (malformed).  *)
(* ObjectId(s) accepts both cases (bytes.fromhex); str(oid) is lower case. *)

Oid(c, n) == [c |-> c, n |-> n]
NoOid == [c |-> "none", n |-> 0]

Hex(o, form) == [oid |-> o, form |-> form]
Malformed == [oid |-> NoOid, form |-> "malformed"]

\* ObjectId(s) raises unless s is 24 hex digits
IsValidOid(s) == s.form \in {"lower", "upper"}

\* ObjectId(s), for a string it accepts
ObjectId(s) == s.oid

\* str(oid)
StrOid(o) == Hex(o, "lower")

----------------------------------------------------------------------------
(* Strings of message content, kept as lengths: pad whitespace characters  *)
(* around a core of `core` characters that begins and ends with a          *)
(* non-whitespace character (core = 0: the string is all whitespace).      *)

Content(pad, core) == [pad |-> pad, core |-> core]
ContentLen(s) == s.pad + s.core

\* str.strip()
Strip(s) == Content(0, s.core)

----------------------------------------------------------------------------
(* Collections as sequences of documents, and equality filters *)

\* an equality filter: every key of the filter is a field with that value
Matches(doc, filter) ==
    \A k \in DOMAIN filter : k \in DOMAIN doc /\ doc[k] = filter[k]

\* the filter {}
NoFilter == <<>>

RECURSIVE SelectFirst(_, _, _)
\* the first n documents of s that match the filter, in order
SelectFirst(s, filter, n) ==
    IF s = <<>> \/ n = 0 THEN <<>>
    ELSE IF Matches(Head(s), filter)
         THEN <<Head(s)>> \o SelectFirst(Tail(s), filter, n - 1)
         ELSE SelectFirst(Tail(s), filter, n)

Range(s) == {s[i] : i \in DOMAIN s}
Count(s, x) == Cardinality({i \in DOMAIN s : s[i] = x})

----------------------------------------------------------------------------
(* Storage access layer.  create_document and get_documents are the        *)
(* helpers of the database module; find_one and update_one are the direct  *)
(* collection calls of join_room and send_message.  A collection is the    *)
(* sequence of its documents in insertion order; every call is atomic.     *)

EmptyDb == [user |-> <<>>, room |-> <<>>, message |-> <<>>]

\* create_document(collection, record): insert, answer the new id as a string
create_document(d, c, record) ==
    LET oid == Oid(c, Len(d[c]) + 1)
    IN  [db |-> [d EXCEPT ![c] = Append(@, ("_id" :> oid) @@ record)],
         id |-> StrOid(oid)]

\* get_documents(collection, filter): every document that matches
get_documents(d, c, filter) == SelectFirst(d[c], filter, Len(d[c]))

\* get_documents(collection, filter, limit): capped at limit
get_documents_limit(d, c, filter, limit) == SelectFirst(d[c], filter, limit)

\* db.<c>.find_one({"_id": oid}): <<doc>>, or <<>> for None
find_one(d, c, oid) == SelectFirst(d[c], [_id |-> oid], 1)

\* $push in place of $addToSet
AddToSetPush(members, value) == Append(members, value)

\* {"$addToSet": {"members": value}} applied to one members array
AddToSet(members, value) ==
    IF value \in Range(members) THEN members ELSE Append(members, value)

\* the filter is dropped: the first room is updated, whatever its _id
update_one_unfiltered(d, oid, value) ==
    IF d.room = <<>> THEN d
    ELSE [d EXCEPT !.room[1].members = AddToSet(@, value)]

\* db.room.update_one({"_id": oid}, {"$addToSet": {"members": value}}):
\* the first room with that _id is updated; no match, no change (no upsert)
update_one(d, oid, value) ==
    LET hit == {i \in DOMAIN d.room : d.room[i]._id = oid}
    IN  IF hit = {} THEN d
        ELSE LET i == CHOOSE i \in hit : \A j \in hit : i <= j
             IN  [d EXCEPT !.room[i].members = AddToSet(@, value)]

----------------------------------------------------------------------------
(* Serialization helper *)

None == "None"

\* _id is converted to a string but not renamed to id
serialize_doc_keeps_id(doc) ==
    [k \in DOMAIN doc |-> IF k = "_id" THEN StrOid(doc[k]) ELSE doc[k]]

\* serialize_doc(doc), for a document (the handlers never pass None):
\* _id is popped and becomes id = str(_id); no other field of these
\* documents holds an ObjectId (room_id, sender_id, members are strings)
serialize_doc(doc) ==
    IF "_id" \in DOMAIN doc
    THEN ("id" :> StrOid(doc._id)) @@ [k \in DOMAIN doc \ {"_id"} |-> doc[k]]
    ELSE doc

\* serialize_list(docs)
serialize_list(docs) == [i \in DOMAIN docs |-> serialize_doc(docs[i])]

----------------------------------------------------------------------------
(* Request schemas.  A body is a record; an optional field may be absent.  *)

\* CreateUser: avatar_url defaults to None
CreateUser(display_name, avatar) ==
    [display_name |-> display_name, avatar_url |-> avatar]

\* CreateRoom.members: Optional[List[str]] = None, then `payload.members or []`
MembersOrEmpty(payload) ==
    IF "members" \in DOMAIN payload THEN payload.members ELSE <<>>

\* SendMessage: content has min_length=1, max_length=5000 (checked on the
\* content as sent); a body that fails is answered 422 by the framework
ValidSendMessage(payload) ==
    /\ ContentLen(payload.content) >= MinContentLen
    /\ ContentLen(payload.content) <= MaxContentLen

----------------------------------------------------------------------------
(* Handlers that make one store call: the whole handler is one step.       *)
(* Each answers [db, status, body].                                        *)

Answer(d, status, body) == [db |-> d, status |-> status, body |-> body]

create_user(d, payload) ==
    LET user == [display_name |-> payload.display_name,
                 avatar_url |-> payload.avatar_url,
                 status |-> "online"]
        ins == create_document(d, "user", user)
    IN  Answer(ins.db, 200, ("id" :> ins.id) @@ user)

list_users(d) ==
    Answer(d, 200, serialize_list(get_documents(d, "user", NoFilter)))

get_user(d, user_id) ==
    IF ~IsValidOid(user_id) THEN Answer(d, 400, "Invalid user id")
    ELSE LET docs == get_documents(d, "user", [_id |-> ObjectId(user_id)])
         IN  IF docs = <<>> THEN Answer(d, 404, "User not found")
             ELSE Answer(d, 200, serialize_doc(docs[1]))

list_rooms(d) ==
    Answer(d, 200, serialize_list(get_documents(d, "room", NoFilter)))

create_room(d, payload) ==
    LET room == [name |-> payload.name,
                 type |-> "channel",
                 members |-> MembersOrEmpty(payload),
                 is_private |-> payload.is_private]
        ins == create_document(d, "room", room)
    IN  Answer(ins.db, 200, ("id" :> ins.id) @@ room)

----------------------------------------------------------------------------
(* get_messages: fetch (capped), sort by created_at, serialize.            *)
(* A creation time is [kind, t]: the store may hold numbers or datetimes.  *)
(* The sort key of a message without created_at is the int 0; Python       *)
(* cannot order an int and a datetime, and list.sort then raises.          *)

Stamp(kind, t) == [kind |-> kind, t |-> t]

\* a missing created_at sorts after every creation time
SortKeyMissingLast(m) ==
    IF "created_at" \in DOMAIN m THEN m.created_at ELSE Stamp("int", MaxStamp + 1)

\* key=lambda m: m.get("created_at", 0)
SortKey(m) == IF "created_at" \in DOMAIN m THEN m.created_at ELSE Stamp("int", 0)

\* x goes after every element whose key is not greater (a stable sort)
RECURSIVE InsertByKey(_, _)
InsertByKey(x, sorted) ==
    IF sorted = <<>> THEN <<x>>
    ELSE IF SortKey(x).t < SortKey(Head(sorted)).t THEN <<x>> \o sorted
         ELSE <<Head(sorted)>> \o InsertByKey(x, Tail(sorted))

RECURSIVE SortedByKey(_)
SortedByKey(s) ==
    IF s = <<>> THEN <<>>
    ELSE InsertByKey(s[Len(s)], SortedByKey(SubSeq(s, 1, Len(s) - 1)))

\* msgs.sort(...) raises TypeError when the keys are of two kinds
SortRaises(msgs) ==
    \E i, j \in DOMAIN msgs : SortKey(msgs[i]).kind # SortKey(msgs[j]).kind

get_messages(d, room_id, limit) ==
    IF ~IsValidOid(room_id) THEN Answer(d, 400, "Invalid room id")
    ELSE LET msgs == get_documents_limit(d, "message", [room_id |-> room_id], limit)
         IN  IF SortRaises(msgs) THEN Answer(d, 500, "Internal Server Error")
             ELSE Answer(d, 200, serialize_list(SortedByKey(msgs)))

----------------------------------------------------------------------------
(* join_room and send_message make several store calls.  A request is a    *)
(* record whose pc names the store call it makes next; one step runs the   *)
(* handler up to and including that call.  nstore counts the store calls   *)
(* the request has made, wrote tells whether it changed the store.         *)

Idle == [op |-> "idle"]

Request(op, room_id, payload) ==
    [op |-> op, room_id |-> room_id, payload |-> payload, pc |-> "start",
     status |-> 0, body |-> None, nstore |-> 0, wrote |-> FALSE]

Done(r, status, body) == [r EXCEPT !.pc = "done", !.status = status, !.body = body]

Called(r) == [r EXCEPT !.nstore = @ + 1]

Stepped(r, d) == [r |-> r, db |-> d]

\* join_room, lines 166-180: both ids are parsed, then the user is looked up
JoinStart(r, d) ==
    IF ~IsValidOid(r.room_id)
    THEN Stepped(Done(r, 400, "Invalid room id"), d)
    ELSE IF ~IsValidOid(r.payload.user_id)
    THEN Stepped(Done(r, 400, "Invalid user id"), d)
    ELSE IF find_one(d, "user", ObjectId(r.payload.user_id)) = <<>>
    THEN Stepped(Done(Called(r), 404, "User not found"), d)
    ELSE Stepped([Called(r) EXCEPT !.pc = "update"], d)

\* join_room, line 182: the user id string, as sent, is added to the set
JoinUpdate(r, d) ==
    LET d2 == update_one(d, ObjectId(r.room_id), r.payload.user_id)
    IN  Stepped([Called(r) EXCEPT !.pc = "reread", !.wrote = (d2 # d)], d2)

\* join_room, lines 183-186: the room is read again and answered
JoinReread(r, d) ==
    LET doc == find_one(d, "room", ObjectId(r.room_id))
    IN  IF doc = <<>>
        THEN Stepped(Done(Called(r), 404, "Room not found"), d)
        ELSE Stepped(Done(Called(r), 200, serialize_doc(doc[1])), d)

\* one step of join_room
JoinStep(r, d) ==
    CASE r.pc = "start" -> JoinStart(r, d)
      [] r.pc = "update" -> JoinUpdate(r, d)
      [] r.pc = "reread" -> JoinReread(r, d)

\* without `except HTTPException: raise`, the 404 is caught and becomes a 400
SendStartSwallows404(r, d) ==
    IF ~ValidSendMessage(r.payload)
    THEN Stepped(Done(r, 422, "Unprocessable Entity"), d)
    ELSE IF ~IsValidOid(r.room_id)
    THEN Stepped(Done(r, 400, "Invalid room id"), d)
    ELSE IF find_one(d, "room", ObjectId(r.room_id)) = <<>>
    THEN Stepped(Done(Called(r), 400, "Invalid room id"), d)
    ELSE Stepped([Called(r) EXCEPT !.pc = "sender"], d)

\* send_message, body validation, then lines 208-215: the room is looked up
SendStart(r, d) ==
    IF ~ValidSendMessage(r.payload)
    THEN Stepped(Done(r, 422, "Unprocessable Entity"), d)
    ELSE IF ~IsValidOid(r.room_id)
    THEN Stepped(Done(r, 400, "Invalid room id"), d)
    ELSE IF find_one(d, "room", ObjectId(r.room_id)) = <<>>
    THEN Stepped(Done(Called(r), 404, "Room not found"), d)
    ELSE Stepped([Called(r) EXCEPT !.pc = "sender"], d)

\* the sender id is parsed but the user is not looked up
SendSenderUnchecked(r, d) ==
    IF ~IsValidOid(r.payload.sender_id)
    THEN Stepped(Done(r, 400, "Invalid user id"), d)
    ELSE Stepped([r EXCEPT !.pc = "insert"], d)

\* send_message, lines 217-224: the sender is looked up
SendSender(r, d) ==
    IF ~IsValidOid(r.payload.sender_id)
    THEN Stepped(Done(r, 400, "Invalid user id"), d)
    ELSE IF find_one(d, "user", ObjectId(r.payload.sender_id)) = <<>>
    THEN Stepped(Done(Called(r), 404, "User not found"), d)
    ELSE Stepped([Called(r) EXCEPT !.pc = "insert"], d)

\* send_message, lines 226-235: the message is built, inserted and answered
SendInsert(r, d) ==
    LET msg == [room_id |-> r.room_id,
                sender_id |-> r.payload.sender_id,
                content |-> Strip(r.payload.content),
                type |-> r.payload.type,
                is_edited |-> FALSE,
                is_deleted |-> FALSE]
        ins == create_document(d, "message", msg)
    IN  Stepped([Done(Called(r), 200, ("id" :> ins.id) @@ msg)
                    EXCEPT !.wrote = TRUE], ins.db)

\* one step of send_message
SendStep(r, d) ==
    CASE r.pc = "start" -> SendStart(r, d)
      [] r.pc = "sender" -> SendSender(r, d)
      [] r.pc = "insert" -> SendInsert(r, d)

HandlerStep(r, d) == IF r.op = "join" THEN JoinStep(r, d) ELSE SendStep(r, d)

\* the handler run from its first line to its response, nothing in between
RunHandler(r, d) ==
    LET s1 == HandlerStep(r, d)
        s2 == IF s1.r.pc = "done" THEN s1 ELSE HandlerStep(s1.r, s1.db)
        s3 == IF s2.r.pc = "done" THEN s2 ELSE HandlerStep(s2.r, s2.db)
    IN  s3

join_room(d, room_id, payload) == RunHandler(Request("join", room_id, payload), d)

send_message(d, room_id, payload) == RunHandler(Request("send", room_id, payload), d)

----------------------------------------------------------------------------
(* Inputs of the requests *)

UserId(n) == StrOid(Oid("user", n))
RoomId(n) == StrOid(Oid("room", n))
Upper(s) == Hex(s.oid, "upper")

\* a well-formed id that no document has
AbsentId == StrOid(Oid("absent", 1))

UserIdInputs == {UserId(n) : n \in 1..MaxUsers} \cup {Upper(UserId(1)), Malformed}
RoomIdInputs == {RoomId(n) : n \in 1..MaxRooms} \cup {AbsentId, Malformed}

UserBodies == {CreateUser("ann", None)}

RoomBodies ==
    {[name |-> "general", is_private |-> FALSE]}
    \cup {[name |-> "general", is_private |-> FALSE, members |-> m] :
            m \in {<<UserId(1)>>, <<UserId(1), UserId(1)>>}}

JoinBodies == {[user_id |-> u] : u \in UserIdInputs}

\* contents: "", " ", "a", " a ", 5000 and 5001 characters, 5000 after a space
ContentInputs ==
    {Content(0, 0), Content(1, 0), Content(0, 1), Content(2, 1),
     Content(0, MaxContentLen), Content(0, MaxContentLen + 1),
     Content(1, MaxContentLen)}

SendMessage(sender_id, content) ==
    [sender_id |-> sender_id, content |-> content, type |-> "text"]

\* send requests: every pair of ids with the content "a", and every content
\* with the ids of the first room and the first user
SendInputs ==
    {<<r, SendMessage(u, Content(0, 1))>> : r \in RoomIdInputs, u \in UserIdInputs}
    \cup {<<RoomId(1), SendMessage(UserId(1), c)>> : c \in ContentInputs}

PlainRoom == [name |-> "general", is_private |-> FALSE]

----------------------------------------------------------------------------
(* State and actions *)

NoResponse == [op |-> "none"]

Init ==
    /\ db = EmptyDb
    /\ reqs = [s \in Slots |-> Idle]
    /\ resp = NoResponse
    /\ posted = {}

Response(op, args, a) ==
    [op |-> op, args |-> args, status |-> a.status, body |-> a.body]

\* history: the body a POST route answered, kept until a join touches the room
Remember(kind, a) == posted \cup {[kind |-> kind, body |-> a.body]}

\* the POSTed room bodies a join on room_id makes stale
Touched(room_id) ==
    {p \in posted : p.kind = "room" /\ IsValidOid(room_id)
                    /\ p.body.id = StrOid(ObjectId(room_id))}

DoCreateUser(payload) ==
    /\ Len(db.user) < MaxUsers
    /\ LET a == create_user(db, payload)
       IN  /\ db' = a.db
           /\ resp' = Response("create_user", payload, a)
           /\ posted' = Remember("user", a)
    /\ UNCHANGED reqs

DoCreateRoom(payload) ==
    /\ Len(db.room) < MaxRooms
    /\ LET a == create_room(db, payload)
       IN  /\ db' = a.db
           /\ resp' = Response("create_room", payload, a)
           /\ posted' = Remember("room", a)
    /\ UNCHANGED reqs

\* Handlers run from request to response with no other request in between
DoListUsers ==
    /\ resp' = Response("list_users", <<>>, list_users(db))
    /\ UNCHANGED <<db, reqs, posted>>

DoGetUser(user_id) ==
    /\ resp' = Response("get_user", [user_id |-> user_id], get_user(db, user_id))
    /\ UNCHANGED <<db, reqs, posted>>

DoListRooms ==
    /\ resp' = Response("list_rooms", <<>>, list_rooms(db))
    /\ UNCHANGED <<db, reqs, posted>>

DoGetMessages(room_id, limit) ==
    /\ resp' = Response("get_messages", [room_id |-> room_id, limit |-> limit],
                        get_messages(db, room_id, limit))
    /\ UNCHANGED <<db, reqs, posted>>

DoJoinRoom(room_id, payload) ==
    /\ LET st == join_room(db, room_id, payload)
       IN  /\ db' = st.db
           /\ resp' = Response("join_room", [room_id |-> room_id, payload |-> payload], st.r)
           /\ posted' = IF st.r.nstore >= 2 THEN posted \ Touched(room_id) ELSE posted
    /\ UNCHANGED reqs

\* cap: the number of message documents the run may hold
DoSendMessage(room_id, payload, cap) ==
    /\ Len(db.message) < cap
    /\ LET st == send_message(db, room_id, payload)
       IN  /\ db' = st.db
           /\ resp' = Response("send_message", [room_id |-> room_id, payload |-> payload], st.r)
           /\ posted' = IF st.r.status = 200
                        THEN posted \cup {[kind |-> "message", body |-> st.r.body]}
                        ELSE posted
    /\ UNCHANGED reqs

\* whether the room of a join request lists its user when the request arrives
ListedAtArrival(room_id, user_id) ==
    LET doc == IF IsValidOid(room_id)
               THEN find_one(db, "room", ObjectId(room_id)) ELSE <<>>
    IN  IF doc = <<>> THEN "no room"
        ELSE IF user_id \in Range(doc[1].members) THEN "listed" ELSE "not listed"

\* a join_room request arrives
SubmitJoin(s, room_id, payload) ==
    /\ reqs[s] = Idle
    /\ reqs' = [reqs EXCEPT ![s] =
                  Request("join", room_id, payload)
                  @@ [listed |-> ListedAtArrival(room_id, payload.user_id)]]
    /\ UNCHANGED <<db, resp, posted>>

\* the request in slot s makes its next store call
Step(s) ==
    /\ reqs[s] # Idle
    /\ reqs[s].pc # "done"
    /\ LET st == HandlerStep(reqs[s], db)
       IN  /\ reqs' = [reqs EXCEPT ![s] = st.r]
           /\ db' = st.db
           /\ posted' = IF reqs[s].op = "join" /\ reqs[s].pc = "update"
                        THEN posted \ Touched(reqs[s].room_id)
                        ELSE IF st.r.op = "send" /\ st.r.status = 200
                        THEN posted \cup {[kind |-> "message", body |-> st.r.body]}
                        ELSE posted
    /\ UNCHANGED resp

\* the response in slot s has been delivered
Retire(s) ==
    /\ reqs[s] # Idle
    /\ reqs[s].pc = "done"
    /\ reqs' = [reqs EXCEPT ![s] = Idle]
    /\ UNCHANGED <<db, resp, posted>>

\* a send_message request arrives
SubmitSend(s, room_id, payload) ==
    /\ reqs[s] = Idle
    /\ Len(db.message)
         + Cardinality({t \in Slots : reqs[t].op = "send" /\ reqs[t].pc # "done"})
       < MaxMsgs
    /\ reqs' = [reqs EXCEPT ![s] = Request("send", room_id, payload)]
    /\ UNCHANGED <<db, resp, posted>>

NextJoin ==
    \/ \E payload \in UserBodies : DoCreateUser(payload)
    \/ \E payload \in RoomBodies : DoCreateRoom(payload)
    \/ \E s \in Slots, room_id \in RoomIdInputs, payload \in JoinBodies :
          SubmitJoin(s, room_id, payload)
    \/ \E s \in Slots : Step(s)
    \/ \E s \in Slots : Retire(s)

SpecJoin == Init /\ [][NextJoin]_vars

NextSend ==
    \/ \E payload \in UserBodies : DoCreateUser(payload)
    \/ DoCreateRoom(PlainRoom)
    \/ \E s \in Slots, in \in SendInputs : SubmitSend(s, in[1], in[2])
    \/ \E s \in Slots : Step(s)
    \/ \E s \in Slots : Retire(s)

SpecSend == Init /\ [][NextSend]_vars

\* The whole API, one request at a time.  The send that succeeds can be
\* repeated until the room holds one message more than the default limit of
\* get_messages; the sends that are refused come in SeqSendInputs.
BulkSend == <<RoomId(1), SendMessage(UserId(1), Content(2, 1))>>

SeqSendInputs ==
    {<<Malformed, SendMessage(UserId(1), Content(0, 1))>>,
     <<RoomId(1), SendMessage(Malformed, Content(0, 1))>>,
     <<RoomId(1), SendMessage(UserId(1), Content(0, 0))>>}

Next ==
    \/ \E payload \in UserBodies : DoCreateUser(payload)
    \/ DoListUsers
    \/ \E user_id \in UserIdInputs : DoGetUser(user_id)
    \/ \E payload \in RoomBodies : DoCreateRoom(payload)
    \/ DoListRooms
    \/ \E room_id \in {RoomId(1), AbsentId} : DoJoinRoom(room_id, [user_id |-> UserId(1)])
    \/ \E in \in SeqSendInputs \cup {BulkSend} :
          DoSendMessage(in[1], in[2], DefaultLimit + 1)
    \/ \E room_id \in {RoomId(1), Upper(RoomId(1)), Malformed} :
          DoGetMessages(room_id, DefaultLimit)

Spec == Init /\ [][Next]_vars

----------------------------------------------------------------------------
(* Properties of join_room (checked under SpecJoin) *)

Joined(s) == reqs[s].op = "join" /\ reqs[s].pc = "done" /\ reqs[s].status = 200

SameRoom(p, q) ==
    /\ IsValidOid(reqs[p].room_id) /\ IsValidOid(reqs[q].room_id)
    /\ ObjectId(reqs[p].room_id) = ObjectId(reqs[q].room_id)

\* the members of the room a request names, as the store holds them now
MembersNow(s) == find_one(db, "room", ObjectId(reqs[s].room_id))[1].members

\* the room a join request names was in the store when the request arrived
RoomWasThere(s) == reqs[s].listed # "no room"

\* C1: after two successful joins of the same user on a room of the store,
\* the room's members hold that user exactly once, and the second join did
\* not change the list (at most one of the two requests changed the store).
C1_JoinTwiceListsOnce ==
    \A p, q \in Slots :
        (p # q /\ Joined(p) /\ Joined(q) /\ SameRoom(p, q)
         /\ RoomWasThere(p) /\ RoomWasThere(q)
         /\ reqs[p].payload.user_id = reqs[q].payload.user_id)
        => /\ Count(MembersNow(p), reqs[p].payload.user_id) = 1
           /\ ~(reqs[p].wrote /\ reqs[q].wrote)

\* C2: in every reachable state no members list holds the same user
\* identifier more than once.
C2_MembersUnique ==
    \A i \in DOMAIN db.room :
        \A u \in Range(db.room[i].members) : Count(db.room[i].members, u) = 1

\* C6: a join answered 400 or 404 has left the store as it was: it changed
\* no members list and created no room document.
C6_RejectedJoinWritesNothing ==
    \A s \in Slots :
        (reqs[s].op = "join" /\ reqs[s].pc = "done" /\ reqs[s].status \in {400, 404})
        => ~reqs[s].wrote

\* C6 witness: a join on a well-formed room id that matches no room, while
\* another room exists, has made its update call and was answered 404.
C6_Witness ==
    \E s \in Slots :
        /\ reqs[s].op = "join" /\ reqs[s].pc = "done"
        /\ reqs[s].status = 404 /\ reqs[s].body = "Room not found"
        /\ reqs[s].nstore = 3
        /\ db.room # <<>>

\* C10: two joins on the same existing room, both answered 200, in any
\* interleaving of their store calls: the members hold both users; when both
\* name the same user and the room did not list that user when either
\* request arrived, the members hold it exactly once.
C10_NoJoinLost ==
    \A p, q \in Slots :
        (p # q /\ Joined(p) /\ Joined(q) /\ SameRoom(p, q)
         /\ RoomWasThere(p) /\ RoomWasThere(q))
        => /\ reqs[p].payload.user_id \in Range(MembersNow(p))
           /\ reqs[q].payload.user_id \in Range(MembersNow(p))
           /\ (/\ reqs[p].payload.user_id = reqs[q].payload.user_id
               /\ reqs[p].listed = "not listed"
               /\ reqs[q].listed = "not listed")
              => Count(MembersNow(p), reqs[p].payload.user_id) = 1

\* C10 witness: two requests naming the same user were both in flight before
\* either updated the room, and both were answered 200; one of them added
\* the user, the other found it listed.
C10_Witness ==
    \E p, q \in Slots :
        /\ p # q /\ Joined(p) /\ Joined(q) /\ SameRoom(p, q)
        /\ reqs[p].listed = "not listed" /\ reqs[q].listed = "not listed"
        /\ reqs[p].payload.user_id = reqs[q].payload.user_id
        /\ reqs[p].wrote /\ ~reqs[q].wrote

----------------------------------------------------------------------------
(* Properties of send_message (checked under SpecSend) *)

Sent(s) == reqs[s].op = "send" /\ reqs[s].pc = "done"

\* some document of collection c has the ObjectId that the string id spells
HasDoc(c, id) == \E i \in DOMAIN db[c] : db[c][i]._id = ObjectId(id)

\* C3: every stored message has a content of 1 to 5000 characters; a request
\* whose content has length 0 or 5001 is answered 422, and one whose content
\* has length 1 or 5000 is not.
C3_ContentWithinBounds ==
    /\ \A i \in DOMAIN db.message :
          /\ ContentLen(db.message[i].content) >= MinContentLen
          /\ ContentLen(db.message[i].content) <= MaxContentLen
    /\ \A s \in Slots : Sent(s) =>
          /\ ContentLen(reqs[s].payload.content) \in {0, MaxContentLen + 1}
                => reqs[s].status = 422
          /\ ContentLen(reqs[s].payload.content) \in {MinContentLen, MaxContentLen}
                => reqs[s].status # 422

\* C4: a message is only ever inserted with a room_id that spells the id of
\* a room in the store and a sender_id that spells the id of a user in the
\* store at that moment, whatever other requests did in between.
C4_MessageRefsExist ==
    [][\A i \in DOMAIN db'.message :
          i > Len(db.message) =>
              /\ IsValidOid(db'.message[i].room_id)
              /\ HasDoc("room", db'.message[i].room_id)
              /\ IsValidOid(db'.message[i].sender_id)
              /\ HasDoc("user", db'.message[i].sender_id)]_vars

\* C4 witness: two requests in flight have both inserted their message.
C4_Witness ==
    \E p, q \in Slots :
        /\ p # q /\ Sent(p) /\ Sent(q)
        /\ reqs[p].status = 200 /\ reqs[q].status = 200
        /\ Len(db.message) = 2

\* C5: a request whose body passes validation is answered 400 when its room
\* id is malformed and 404 when it is well-formed and matches no room; once
\* the room is found, it is answered 400 when the sender id is malformed and
\* 404 when it is well-formed and matches no user (where both ids are at
\* fault the room's fault decides); in each of these cases the step leaves
\* the store unchanged and the request has inserted nothing.
C5_SendErrors ==
    [][\A s \in Slots :
          (/\ reqs[s].op = "send" /\ reqs[s].pc # "done"
           /\ reqs'[s] # reqs[s]
           /\ ValidSendMessage(reqs[s].payload)) =>
              LET id == IF reqs[s].pc = "start" THEN reqs[s].room_id
                        ELSE reqs[s].payload.sender_id
                  c == IF reqs[s].pc = "start" THEN "room" ELSE "user"
                  Refused(status) ==
                      /\ reqs'[s].pc = "done" /\ reqs'[s].status = status
                      /\ ~reqs'[s].wrote /\ db' = db
              IN  reqs[s].pc \in {"start", "sender"} =>
                      /\ ~IsValidOid(id) => Refused(400)
                      /\ (IsValidOid(id) /\ ~HasDoc(c, id)) => Refused(404)]_vars

\* C5 witness: a request whose room was found is answered 400 for its
\* malformed sender id, and another is answered 404 for an absent room.
C5_Witness ==
    \E p, q \in Slots :
        /\ Sent(p) /\ reqs[p].status = 400 /\ reqs[p].body = "Invalid user id"
        /\ Sent(q) /\ reqs[q].status = 404 /\ reqs[q].body = "Room not found"
        /\ db.message = <<>>

\* C7: a request answered 422 or 400 has made no store call before.
C7_RejectedBeforeStoreAccess ==
    \A s \in Slots :
        (reqs[s] # Idle /\ reqs[s].pc = "done" /\ reqs[s].status \in {400, 422})
        => reqs[s].nstore = 0

----------------------------------------------------------------------------
(* Round trip of the POST routes (checked under Spec) *)

Posted(kind) == {p \in posted : p.kind = kind}

\* the messages of the store whose room_id is the string room_id
StoredIn(room_id) == {i \in DOMAIN db.message : db.message[i].room_id = room_id}

UserRoundTrip ==
    resp.op = "get_user" =>
        \A p \in Posted("user") :
            p.body.id = resp.args.user_id
            => resp.status = 200 /\ resp.body = p.body

RoomRoundTrip ==
    resp.op = "list_rooms" =>
        \A p \in Posted("room") : \E i \in DOMAIN resp.body : resp.body[i] = p.body

MessageRoundTrip(p) ==
    /\ resp.status = 200
    /\ \E i \in DOMAIN resp.body : resp.body[i] = p.body

\* C9 as stated: after a successful POST, the following GET (get_user by the
\* returned id, list_rooms, get_messages with the same room id string), with
\* no join on the room in between, answers a record equal to the POST's
\* response, field for field.
C9_AsStated ==
    /\ UserRoundTrip
    /\ RoomRoundTrip
    /\ resp.op = "get_messages" =>
          \A p \in Posted("message") :
              p.body.room_id = resp.args.room_id => MessageRoundTrip(p)

\* C9, amended: the same, for get_messages provided the store holds no more
\* messages of that room id than the limit of the request (50 by default).
C9_RoundTrip ==
    /\ UserRoundTrip
    /\ RoomRoundTrip
    /\ resp.op = "get_messages" =>
          \A p \in Posted("message") :
              (/\ p.body.room_id = resp.args.room_id
               /\ Cardinality(StoredIn(resp.args.room_id)) <= resp.args.limit)
              => MessageRoundTrip(p)

\* C9 witness: the room holds as many messages as the limit, and the last of
\* the list that get_messages answers is the message posted last.
C9_Witness ==
    /\ resp.op = "get_messages" /\ resp.status = 200
    /\ Len(resp.body) = DefaultLimit
    /\ Len(db.message) = DefaultLimit
    /\ [kind |-> "message", body |-> resp.body[DefaultLimit]] \in posted
    /\ resp.body[DefaultLimit].id = StrOid(Oid("message", DefaultLimit))

----------------------------------------------------------------------------
(* get_messages over a store that already holds messages.  The documents   *)
(* are those send_message writes, for the first room under either spelling *)
(* of its id; created_at is absent, a number or a datetime, in any order   *)
(* (the store is shared, and the code reads created_at "if present").      *)

NoStamp == Stamp("none", 0)

Stamps == {NoStamp} \cup {Stamp(k, t) : k \in {"int", "datetime"}, t \in 1..MaxStamp}

StoredMessage(i, room_id, stamp) ==
    LET doc == [_id |-> Oid("message", i),
                room_id |-> room_id,
                sender_id |-> UserId(1),
                content |-> Content(0, 1),
                type |-> "text",
                is_edited |-> FALSE,
                is_deleted |-> FALSE]
    IN  IF stamp = NoStamp THEN doc ELSE ("created_at" :> stamp) @@ doc

StoredDbs ==
    LET base == create_room(create_user(EmptyDb, CreateUser("ann", None)).db,
                            PlainRoom).db
        Shapes(n) == [1..n -> {RoomId(1), Upper(RoomId(1))} \X Stamps]
    IN  {[base EXCEPT !.message =
             [i \in DOMAIN f |-> StoredMessage(i, f[i][1], f[i][2])]] :
            f \in UNION {Shapes(n) : n \in 0..MaxStored}}

InitStored ==
    /\ db \in StoredDbs
    /\ reqs = [s \in Slots |-> Idle]
    /\ resp = NoResponse
    /\ posted = {}

NextStored ==
    \E room_id \in {RoomId(1), Upper(RoomId(1)), Malformed},
       limit \in {1, 2, DefaultLimit} :
        DoGetMessages(room_id, limit)

SpecStored == InitStored /\ [][NextStored]_vars

HasStamp(m) == "created_at" \in DOMAIN m

====
